---- MODULE Spec2Model ----
(***************************************************************************)
(* State-machine model of the neuronano session controller: the driver    *)
(* loop of run_app (src/src/main.rs), the App methods (src/src/app.rs),   *)
(* the background AI task and its capacity-1 result channel.               *)
(*                                                                         *)
(* Strings are sequences of one-character strings; Option<T> is <<>> for  *)
(* None and <<x>> for Some(x).                                            *)
(***************************************************************************)
EXTENDS Integers, Sequences, FiniteSets, TLC

VARIABLES app, fs, tasks, chan, pc, last, dispatched, completed_live, applied, snapshot,
          md_text, md_result

vars == <<app, fs, tasks, chan, pc, last, dispatched, completed_live, applied, snapshot,
          md_text, md_result>>

(***************************************************************************)
(* Bounds                                                                  *)
(***************************************************************************)
\* the number of AI dispatches followed in one session
MaxDispatch == 2
\* the number of lines of a text the user can type into the main buffer
MaxLines == 1
\* the rightmost column the user moves the cursor to
MaxCol == 1
\* the number of lines of a text that is searched
MaxSearchLines == 2
\* the number of lines of a model response given to clean_markdown
MaxMdLines == 3

(***************************************************************************)
(* Option and string helpers                                               *)
(***************************************************************************)
None == <<>>

Some(x) == <<x>>

NL == "\n"

IsWhitespace(c) == c \in {" ", NL}

\* index of the first element of s satisfying s[i] = c, 0 when there is none
RECURSIVE FindFrom(_, _, _)
FindFrom(s, c, i) ==
    IF i > Len(s) THEN 0
    ELSE IF s[i] = c THEN i
    ELSE FindFrom(s, c, i + 1)

\* str::lines(): split at "\n", a trailing empty piece is not a line
RECURSIVE StrLines(_)
StrLines(s) ==
    IF s = <<>> THEN <<>>
    ELSE LET i == FindFrom(s, NL, 1) IN
         IF i = 0 THEN <<s>>
         ELSE <<SubSeq(s, 1, i - 1)>> \o StrLines(SubSeq(s, i + 1, Len(s)))

\* [String]::join("\n")
RECURSIVE JoinLines(_)
JoinLines(ls) ==
    IF ls = <<>> THEN <<>>
    ELSE IF Len(ls) = 1 THEN ls[1]
    ELSE ls[1] \o <<NL>> \o JoinLines(Tail(ls))

RECURSIVE TrimStart(_)
TrimStart(s) ==
    IF s # <<>> /\ IsWhitespace(s[1]) THEN TrimStart(Tail(s)) ELSE s

RECURSIVE TrimEnd(_)
TrimEnd(s) ==
    IF s # <<>> /\ IsWhitespace(s[Len(s)]) THEN TrimEnd(SubSeq(s, 1, Len(s) - 1)) ELSE s

\* str::trim()
Trim(s) == TrimEnd(TrimStart(s))

StartsWith(s, p) == Len(s) >= Len(p) /\ SubSeq(s, 1, Len(p)) = p

\* TextArea::from(lines): a text area always holds at least one line, and a new
\* one has its cursor at row 0, column 0
TextAreaFrom(ls) ==
    [lines |-> IF ls = <<>> THEN <<<<>>>> ELSE ls, cursor |-> <<0, 0>>]

\* the cursor positions of a text the user moves to: a row of the text and a
\* column of that row, among the first MaxCol columns
CursorsOf(ls) ==
    UNION {{<<r, c>> : c \in 0..(IF Len(ls[r + 1]) < MaxCol THEN Len(ls[r + 1]) ELSE MaxCol)} :
           r \in 0..(Len(ls) - 1)}

\* all sequences over S of length 1..n
RECURSIVE SeqsUpTo(_, _)
SeqsUpTo(S, n) ==
    IF n = 0 THEN {}
    ELSE LET shorter == SeqsUpTo(S, n - 1) IN
         {<<x>> : x \in S} \cup shorter \cup {<<x>> \o t : x \in S, t \in shorter}

(***************************************************************************)
(* Program constants                                                       *)
(***************************************************************************)
NoName == <<"[", "N", "o", " ", "N", "a", "m", "e", "]">>

\* the backquote character (written as a name: the character itself cannot
\* appear in a string of this module)
Backquote == "BACKQUOTE"

Fence == <<Backquote, Backquote, Backquote>>

\* the character e with an acute accent, two bytes in UTF-8 (written as a name)
EAcute == "E_ACUTE"

ErrorPrefix == <<"E", "r", "r", "o", "r", ":", " ">>

Modes == {"Normal", "Prompting", "Setup", "Processing", "Search", "SaveAs", "ConfirmQuit"}

\* anyhow error texts of save_file
NoFilenameErr == "No filename specified"

IoErr == "io error"

\* mpsc::channel(1)
ChannelCapacity == 1

(***************************************************************************)
(* Inputs                                                                  *)
(***************************************************************************)
NONE == {}

CONTROL == {"CONTROL"}

Key(code, mods) == [code |-> code, mods |-> mods]

Keys ==
    {Key(c, CONTROL) : c \in {"q", "p", "k", "u", "o", "f"}}
    \cup {Key("q", {"CONTROL", "ALT"})}
    \cup {Key(c, NONE) : c \in {"q", "y", "Y", "n", "N", "x", "Esc", "Enter"}}

\* lines the user types into the main buffer
EditLines == {<<>>, <<"a">>}

EditTexts == SeqsUpTo(EditLines, MaxLines)

\* the states the main text area can be left in by the widget's own key
\* handling, cut or paste: a typed text or the text as it is, and a cursor in it
TextAreaOutcomes(ta) ==
    UNION {{[lines |-> ls, cursor |-> cu] : cu \in CursorsOf(ls)} :
           ls \in EditTexts \cup {ta.lines}}

\* lines of the texts that are searched
SearchLines == {<<"b">>, <<"b", "a">>, <<EAcute, "a">>}

SearchTexts == SeqsUpTo(SearchLines, MaxSearchLines)

\* the command-line file argument
CliFilenames == {None, Some(<<>>), Some(<<"n">>)}

\* paths the file system can hold a file at
Paths == {<<"n">>}

\* contents of the file found at start-up
InitFileContents == {<<"a">>}

\* api_key values found in config.json at start-up
InitApiKeys == {<<>>, <<"k">>}

\* first lines of the four auxiliary fields after an edit
PromptInputs == {<<>>, <<"u">>}

SetupInputs == {<<>>, <<" ", "k", " ">>}

SearchInputs == {<<>>, <<"a">>}

FilenameInputs == {<<>>, <<" ">>, <<" ", "n", " ">>, NoName}

\* texts returned by the remote model, before clean_markdown
RawResponses == {<<>>, <<"b">>, Fence \o <<NL, "b", NL>> \o Fence}

\* error messages of a failed request: one line, and one ending in a line
\* terminator (the body of an error response)
AiErrors == {<<"r">>, <<"r", NL>>}

(***************************************************************************)
(* src/src/ai.rs                                                           *)
(***************************************************************************)
\* clean_markdown that tests the lines for the fence without trimming them
clean_markdown_untrimmed(text) ==
    LET lines0 == StrLines(text)
        lines1 == IF lines0 # <<>> /\ StartsWith(lines0[1], Fence)
                  THEN Tail(lines0) ELSE lines0
        lines2 == IF lines1 # <<>> /\ StartsWith(lines1[Len(lines1)], Fence)
                  THEN SubSeq(lines1, 1, Len(lines1) - 1) ELSE lines1
    IN  IF lines0 = <<>> THEN <<>> ELSE JoinLines(lines2)

clean_markdown(text) ==
    LET lines0 == StrLines(text)
        lines1 == IF lines0 # <<>> /\ StartsWith(Trim(lines0[1]), Fence)
                  THEN Tail(lines0) ELSE lines0
        lines2 == IF lines1 # <<>> /\ StartsWith(Trim(lines1[Len(lines1)]), Fence)
                  THEN SubSeq(lines1, 1, Len(lines1) - 1) ELSE lines1
    IN  IF lines0 = <<>> THEN <<>> ELSE JoinLines(lines2)

\* the strings a task can send for its request: Ok(clean_markdown(text)) or
\* the formatted error
TaskResults ==
    {clean_markdown(t) : t \in RawResponses} \cup {ErrorPrefix \o m : m \in AiErrors}

(***************************************************************************)
(* src/src/app.rs                                                          *)
(***************************************************************************)
quit(a) == [a EXCEPT !.should_quit = TRUE]

enter_prompt_mode(a) == [a EXCEPT !.mode = "Prompting"]

exit_prompt_mode(a) == [a EXCEPT !.mode = "Normal"]

set_processing(a, is_processing) ==
    [a EXCEPT !.mode = IF is_processing THEN "Processing" ELSE "Normal"]

enter_search_mode(a) == [a EXCEPT !.mode = "Search"]

exit_search_mode(a) == [a EXCEPT !.mode = "Normal"]

set_status(a, msg) == [a EXCEPT !.status_message = Some(msg)]

\* mark_dirty that forgets to clear the status message
mark_dirty_keeps_status(a) == [a EXCEPT !.is_modified = TRUE]

mark_dirty(a) == [a EXCEPT !.is_modified = TRUE, !.status_message = None]

\* fs::write(path, content); io_ok is whether the operating system lets it succeed
fs_write(f, path, content, io_ok) ==
    IF io_ok /\ path \in Paths
    THEN [ok |-> TRUE, fs |-> [f EXCEPT !.files[path] = Some(content)]]
    ELSE [ok |-> FALSE, fs |-> f]

\* save_file that clears is_modified before the write is known to have succeeded
save_file_clears_first(a, f, io_ok) ==
    IF a.filename = NoName \/ a.filename = <<>>
    THEN [app |-> a, fs |-> f, res |-> NoFilenameErr]
    ELSE LET w == fs_write(f, a.filename, JoinLines(a.textarea.lines), io_ok)
             a1 == [a EXCEPT !.is_modified = FALSE]
         IN  IF w.ok
             THEN [app |-> set_status(a1, "File Saved!"), fs |-> w.fs, res |-> "Ok"]
             ELSE [app |-> a1, fs |-> w.fs, res |-> IoErr]

\* save_file that tests the sentinel only, not the empty filename
save_file_no_empty_check(a, f, io_ok) ==
    IF a.filename = NoName
    THEN [app |-> a, fs |-> f, res |-> NoFilenameErr]
    ELSE LET w == fs_write(f, a.filename, JoinLines(a.textarea.lines), io_ok) IN
         IF w.ok
         THEN [app |-> set_status([a EXCEPT !.is_modified = FALSE], "File Saved!"),
               fs |-> w.fs, res |-> "Ok"]
         ELSE [app |-> a, fs |-> w.fs, res |-> IoErr]

\* save_file: the App and the file system after the call, and Ok or the error
save_file(a, f, io_ok) ==
    IF a.filename = NoName \/ a.filename = <<>>
    THEN [app |-> a, fs |-> f, res |-> NoFilenameErr]
    ELSE LET w == fs_write(f, a.filename, JoinLines(a.textarea.lines), io_ok) IN
         IF w.ok
         THEN [app |-> set_status([a EXCEPT !.is_modified = FALSE], "File Saved!"),
               fs |-> w.fs, res |-> "Ok"]
         ELSE [app |-> a, fs |-> w.fs, res |-> IoErr]

prompt_save_as(a) ==
    [a EXCEPT !.mode = "SaveAs",
              !.filename_input = IF a.filename # NoName THEN a.filename ELSE <<>>]

\* save_config that leaves Setup whether or not config.json was written
save_config_always_normal(a, f, io_ok) ==
    LET a1 == [a EXCEPT !.config = Trim(a.setup_textarea), !.mode = "Normal"] IN
    IF io_ok
    THEN [app |-> a1, fs |-> [f EXCEPT !.config = a1.config]]
    ELSE [app |-> a1, fs |-> f]

\* Config::save then save_config; io_ok is whether config.json can be written
save_config(a, f, io_ok) ==
    LET a1 == [a EXCEPT !.config = Trim(a.setup_textarea)] IN
    IF io_ok
    THEN [app |-> [a1 EXCEPT !.mode = "Normal"], fs |-> [f EXCEPT !.config = a1.config]]
    ELSE [app |-> a1, fs |-> f]

\* App::new for a command-line argument, a file system and a loaded api key
NewApp(cli, f) ==
    [textarea |-> IF cli # None /\ cli[1] \in Paths /\ f.files[cli[1]] # None
                  THEN TextAreaFrom(StrLines(f.files[cli[1]][1]))
                  ELSE TextAreaFrom(<<>>),
     prompt_textarea |-> <<>>,
     setup_textarea |-> <<>>,
     search_textarea |-> <<>>,
     filename_input |-> <<>>,
     should_quit |-> FALSE,
     mode |-> IF f.config = <<>> THEN "Setup" ELSE "Normal",
     filename |-> IF cli = None THEN NoName ELSE cli[1],
     config |-> f.config,
     is_modified |-> FALSE,
     status_message |-> None]

(***************************************************************************)
(* History kept for stating the properties: the last step of the loop, the *)
(* counts of tasks dispatched, completed before the quit and applied, and  *)
(* the buffer text captured by the dispatch that is not yet reconciled.    *)
(***************************************************************************)
NoLast ==
    [op |-> "none", mode |-> "none", key |-> Key("none", NONE), save |-> "none",
     cfg |-> "none"]

KeyLast(key, save) ==
    [op |-> "key", mode |-> app.mode, key |-> key, save |-> save, cfg |-> "none"]

(***************************************************************************)
(* Initial state: the state after App::new, at the top of the loop         *)
(***************************************************************************)
Init ==
    /\ \E cli \in CliFilenames, k \in InitApiKeys,
          fl \in [Paths -> {None} \cup {Some(c) : c \in InitFileContents}] :
          /\ fs = [files |-> fl, config |-> k]
          /\ app = NewApp(cli, fs)
    /\ tasks = <<>>
    /\ chan = <<>>
    /\ pc = "poll"
    /\ last = NoLast
    /\ dispatched = 0
    /\ completed_live = 0
    /\ applied = 0
    /\ snapshot = None
    /\ md_text = <<>>
    /\ md_result = None

(***************************************************************************)
(* src/src/main.rs: run_app                                                *)
(***************************************************************************)
\* the poll step that replaces the buffer and leaves the mode alone
poll_apply_stays_processing(a, response) ==
    [a EXCEPT !.textarea = TextAreaFrom(StrLines(response))]

\* the poll step that leaves Processing and drops the response
poll_apply_keeps_text(a, response) == set_processing(a, FALSE)

\* the poll step on a received response
poll_apply(a, response) ==
    set_processing([a EXCEPT !.textarea = TextAreaFrom(StrLines(response))], FALSE)

\* top of the loop: try_recv on the result channel
Poll ==
    /\ pc = "poll"
    /\ IF chan # <<>>
       THEN /\ app' = poll_apply(app, Head(chan))
            /\ chan' = Tail(chan)
            /\ applied' = applied + 1
            /\ snapshot' = None
            /\ last' = [NoLast EXCEPT !.op = "poll_apply", !.mode = app.mode]
       ELSE /\ UNCHANGED <<app, chan, applied, snapshot>>
            /\ last' = [NoLast EXCEPT !.op = "poll_empty", !.mode = app.mode]
    /\ pc' = "event"
    /\ UNCHANGED <<fs, tasks, dispatched, completed_live, md_text, md_result>>

\* event::poll times out, or the event is not a key
NoKey ==
    /\ pc = "event"
    /\ pc' = "check"
    /\ last' = [NoLast EXCEPT !.op = "nokey", !.mode = app.mode]
    /\ UNCHANGED <<app, fs, tasks, chan, dispatched, snapshot, completed_live, applied, md_text, md_result>>

\* format!("Error: {}", e) and format!("Error saving: {}", e)
ErrorStatus(e) == "Error: " \o e

ErrorSavingStatus(e) == "Error saving: " \o e

\* the quit combo that does not look at is_modified
normal_quit_direct(a) == quit(a)

\* Normal, the quit combo
normal_quit(a) ==
    IF a.is_modified THEN [a EXCEPT !.mode = "ConfirmQuit"] ELSE quit(a)

\* Normal, the save combo; r is the outcome of save_file when it is called
normal_save(a, r) ==
    IF a.filename # NoName
    THEN IF r.res # "Ok" THEN set_status(r.app, ErrorStatus(r.res)) ELSE r.app
    ELSE prompt_save_as(a)

\* Normal, any other key: the text area handles it and tells whether the text changed
normal_input(a, ta) ==
    IF ta.lines # a.textarea.lines
    THEN mark_dirty([a EXCEPT !.textarea = ta])
    ELSE [a EXCEPT !.textarea = ta]

NormalCombos == {Key(c, CONTROL) : c \in {"q", "p", "k", "u", "o", "f"}}

KeyNormal ==
    /\ pc = "event"
    /\ app.mode = "Normal"
    /\ \E key \in Keys :
        \/ /\ key = Key("q", CONTROL)
           /\ app' = normal_quit(app)
           /\ last' = KeyLast(key, "none")
           /\ UNCHANGED fs
        \/ /\ key = Key("p", CONTROL)
           /\ app' = enter_prompt_mode(app)
           /\ last' = KeyLast(key, "none")
           /\ UNCHANGED fs
        \/ /\ key \in {Key("k", CONTROL), Key("u", CONTROL)}
           /\ \E ta \in TextAreaOutcomes(app.textarea) :
                 app' = mark_dirty([app EXCEPT !.textarea = ta])
           /\ last' = KeyLast(key, "none")
           /\ UNCHANGED fs
        \/ /\ key = Key("o", CONTROL)
           /\ \E io_ok \in BOOLEAN :
                 LET r == save_file(app, fs, io_ok) IN
                 /\ app' = normal_save(app, r)
                 /\ fs' = IF app.filename # NoName THEN r.fs ELSE fs
                 /\ last' = KeyLast(key, IF app.filename # NoName THEN r.res ELSE "none")
        \/ /\ key = Key("f", CONTROL)
           /\ app' = enter_search_mode(app)
           /\ last' = KeyLast(key, "none")
           /\ UNCHANGED fs
        \/ /\ key \notin NormalCombos
           /\ \E ta \in TextAreaOutcomes(app.textarea) :
                 app' = normal_input(app, ta)
           /\ last' = KeyLast(key, "none")
           /\ UNCHANGED fs
    /\ pc' = "check"
    /\ UNCHANGED <<tasks, chan, dispatched, snapshot, completed_live, applied, md_text, md_result>>

\* the snapshot handed to the spawned task
Snapshot(a) ==
    [api_key |-> a.config, current_code |-> JoinLines(a.textarea.lines),
     filename |-> a.filename, prompt |-> a.prompt_textarea]

KeyPrompting ==
    /\ pc = "event"
    /\ app.mode = "Prompting"
    /\ \E key \in Keys :
        /\ \/ /\ key.code = "Esc"
              /\ app' = exit_prompt_mode(app)
              /\ UNCHANGED <<tasks, dispatched, snapshot>>
           \/ /\ key.code = "Enter"
              /\ dispatched < MaxDispatch
              /\ app' = set_processing(app, TRUE)
              /\ tasks' = Append(tasks, Snapshot(app))
              /\ dispatched' = dispatched + 1
              /\ snapshot' = Some(Snapshot(app).current_code)
           \/ /\ key.code \notin {"Esc", "Enter"}
              /\ \E t \in PromptInputs \cup {app.prompt_textarea} :
                    app' = [app EXCEPT !.prompt_textarea = t]
              /\ UNCHANGED <<tasks, dispatched, snapshot>>
        /\ last' = KeyLast(key, "none")
    /\ pc' = "check"
    /\ UNCHANGED <<fs, chan, completed_live, applied, md_text, md_result>>

KeySetup ==
    /\ pc = "event"
    /\ app.mode = "Setup"
    /\ \E key \in Keys :
        \/ /\ key.code = "Esc" \/ (key.code = "q" /\ "CONTROL" \in key.mods)
           /\ app' = quit(app)
           /\ last' = KeyLast(key, "none")
           /\ UNCHANGED fs
        \/ /\ key.code = "Enter"
           /\ \E io_ok \in BOOLEAN :
                 LET r == save_config(app, fs, io_ok) IN
                 /\ app' = r.app
                 /\ fs' = r.fs
                 /\ last' = [KeyLast(key, "none") EXCEPT !.cfg = IF io_ok THEN "Ok" ELSE IoErr]
        \/ /\ key.code \notin {"Esc", "Enter"}
           /\ ~(key.code = "q" /\ "CONTROL" \in key.mods)
           /\ \E t \in SetupInputs \cup {app.setup_textarea} :
                 app' = [app EXCEPT !.setup_textarea = t]
           /\ last' = KeyLast(key, "none")
           /\ UNCHANGED fs
    /\ pc' = "check"
    /\ UNCHANGED <<tasks, chan, dispatched, snapshot, completed_live, applied, md_text, md_result>>

\* Processing where Esc gives up waiting and returns to Normal
processing_key_esc_cancels(a, key) ==
    IF key.code = "q" /\ "CONTROL" \in key.mods THEN quit(a)
    ELSE IF key.code = "Esc" THEN [a EXCEPT !.mode = "Normal"]
    ELSE a

\* Processing: input is ignored, except the quit combo
processing_key(a, key) ==
    IF key.code = "q" /\ "CONTROL" \in key.mods THEN quit(a) ELSE a

KeyProcessing ==
    /\ pc = "event"
    /\ app.mode = "Processing"
    /\ \E key \in Keys :
        /\ app' = processing_key(app, key)
        /\ last' = KeyLast(key, "none")
    /\ pc' = "check"
    /\ UNCHANGED <<fs, tasks, chan, dispatched, snapshot, completed_live, applied, md_text, md_result>>

\* the 0-based index of the first character at which q occurs in line, -1 for none
RECURSIVE FindSubFrom(_, _, _)
FindSubFrom(line, q, i) ==
    IF i + Len(q) > Len(line) THEN -1
    ELSE IF SubSeq(line, i + 1, i + Len(q)) = q THEN i
    ELSE FindSubFrom(line, q, i + 1)

\* the number of bytes of the UTF-8 encoding of a character
Utf8Len(c) == IF c = EAcute THEN 2 ELSE 1

RECURSIVE ByteLen(_)
ByteLen(str) == IF str = <<>> THEN 0 ELSE Utf8Len(Head(str)) + ByteLen(Tail(str))

\* str::find: the byte offset of the first occurrence of q in line, -1 for None
StrFind(line, q) ==
    LET i == FindSubFrom(line, q, 0) IN
    IF i < 0 THEN -1 ELSE ByteLen(SubSeq(line, 1, i))

\* the cast `as u16`
AsU16(n) == n % 65536

\* CursorMove::Jump(row, col): rows and columns count characters, and a
\* position outside the text is made to fit within it
Jump(ta, row, col) ==
    LET r == IF row < Len(ta.lines) THEN row ELSE Len(ta.lines) - 1
        c == IF col < Len(ta.lines[r + 1]) THEN col ELSE Len(ta.lines[r + 1])
    IN  [ta EXCEPT !.cursor = <<r, c>>]

\* the search loop from line index i (0-based): the text area after the first jump
RECURSIVE search_from(_, _, _)
search_from(ta, query, i) ==
    IF i >= Len(ta.lines) THEN ta
    ELSE IF StrFind(ta.lines[i + 1], query) >= 0
         THEN Jump(ta, AsU16(i), AsU16(StrFind(ta.lines[i + 1], query)))
         ELSE search_from(ta, query, i + 1)

\* Search Enter that marks the buffer modified after the jump
search_enter_marks_dirty(a) ==
    mark_dirty(exit_search_mode([a EXCEPT !.textarea = search_from(a.textarea, a.search_textarea, 0)]))

search_enter(a) ==
    exit_search_mode([a EXCEPT !.textarea = search_from(a.textarea, a.search_textarea, 0)])

KeySearch ==
    /\ pc = "event"
    /\ app.mode = "Search"
    /\ \E key \in Keys :
        /\ \/ /\ key.code = "Esc"
              /\ app' = exit_search_mode(app)
           \/ /\ key.code = "Enter"
              /\ app' = search_enter(app)
           \/ /\ key.code \notin {"Esc", "Enter"}
              /\ \E t \in SearchInputs \cup {app.search_textarea} :
                    app' = [app EXCEPT !.search_textarea = t]
        /\ last' = KeyLast(key, "none")
    /\ pc' = "check"
    /\ UNCHANGED <<fs, tasks, chan, dispatched, snapshot, completed_live, applied, md_text, md_result>>

\* SaveAs, Enter; r is the outcome of save_file on the App with the new filename
\* SaveAs that stores the filename as typed, untrimmed
saveas_named_untrimmed(a) == [a EXCEPT !.filename = a.filename_input]

saveas_named(a) == [a EXCEPT !.filename = Trim(a.filename_input)]

\* SaveAs Enter that closes the dialog on a blank name
saveas_enter_blank_exits(a, r) ==
    IF Trim(a.filename_input) # <<>>
    THEN [(IF r.res # "Ok" THEN set_status(r.app, ErrorStatus(r.res)) ELSE r.app)
            EXCEPT !.mode = "Normal"]
    ELSE [a EXCEPT !.mode = "Normal"]

saveas_enter(a, r) ==
    IF Trim(a.filename_input) # <<>>
    THEN [(IF r.res # "Ok" THEN set_status(r.app, ErrorStatus(r.res)) ELSE r.app)
            EXCEPT !.mode = "Normal"]
    ELSE a

KeySaveAs ==
    /\ pc = "event"
    /\ app.mode = "SaveAs"
    /\ \E key \in Keys :
        \/ /\ key.code = "Esc"
           /\ app' = [app EXCEPT !.mode = "Normal"]
           /\ last' = KeyLast(key, "none")
           /\ UNCHANGED fs
        \/ /\ key.code = "Enter"
           /\ \E io_ok \in BOOLEAN :
                 LET r == save_file(saveas_named(app), fs, io_ok)
                     called == Trim(app.filename_input) # <<>>
                 IN  /\ app' = saveas_enter(app, r)
                     /\ fs' = IF called THEN r.fs ELSE fs
                     /\ last' = KeyLast(key, IF called THEN r.res ELSE "none")
        \/ /\ key.code \notin {"Esc", "Enter"}
           /\ \E t \in FilenameInputs \cup {app.filename_input} :
                 app' = [app EXCEPT !.filename_input = t]
           /\ last' = KeyLast(key, "none")
           /\ UNCHANGED fs
    /\ pc' = "check"
    /\ UNCHANGED <<tasks, chan, dispatched, snapshot, completed_live, applied, md_text, md_result>>

\* ConfirmQuit 'y' that stays in ConfirmQuit when the save fails
confirm_yes_stays(a, r) ==
    IF a.filename = NoName
    THEN prompt_save_as(a)
    ELSE IF r.res # "Ok"
         THEN set_status(r.app, ErrorSavingStatus(r.res))
         ELSE quit(r.app)

\* ConfirmQuit 'y' that quits whether or not the save succeeded
confirm_yes_ignores_error(a, r) ==
    IF a.filename = NoName THEN prompt_save_as(a) ELSE quit(r.app)

\* ConfirmQuit, 'y' or 'Y'; r is the outcome of save_file when it is called
confirm_yes(a, r) ==
    IF a.filename = NoName
    THEN prompt_save_as(a)
    ELSE IF r.res # "Ok"
         THEN [set_status(r.app, ErrorSavingStatus(r.res)) EXCEPT !.mode = "Normal"]
         ELSE quit(r.app)

\* ConfirmQuit where a key that is not mapped cancels the dialog
KeyConfirmQuit_other_cancels ==
    /\ pc = "event"
    /\ app.mode = "ConfirmQuit"
    /\ \E key \in Keys :
        \/ /\ key.code \in {"y", "Y"}
           /\ \E io_ok \in BOOLEAN :
                 LET r == save_file(app, fs, io_ok) IN
                 /\ app' = confirm_yes(app, r)
                 /\ fs' = IF app.filename # NoName THEN r.fs ELSE fs
                 /\ last' = KeyLast(key, IF app.filename # NoName THEN r.res ELSE "none")
        \/ /\ key.code \in {"n", "N"}
           /\ app' = quit(app)
           /\ last' = KeyLast(key, "none")
           /\ UNCHANGED fs
        \/ /\ key.code \notin {"y", "Y", "n", "N"}
           /\ app' = [app EXCEPT !.mode = "Normal"]
           /\ last' = KeyLast(key, "none")
           /\ UNCHANGED fs
    /\ pc' = "check"
    /\ UNCHANGED <<tasks, chan, dispatched, snapshot, completed_live, applied, md_text, md_result>>

KeyConfirmQuit ==
    /\ pc = "event"
    /\ app.mode = "ConfirmQuit"
    /\ \E key \in Keys :
        \/ /\ key.code \in {"y", "Y"}
           /\ \E io_ok \in BOOLEAN :
                 LET r == save_file(app, fs, io_ok) IN
                 /\ app' = confirm_yes(app, r)
                 /\ fs' = IF app.filename # NoName THEN r.fs ELSE fs
                 /\ last' = KeyLast(key, IF app.filename # NoName THEN r.res ELSE "none")
        \/ /\ key.code \in {"n", "N"}
           /\ app' = quit(app)
           /\ last' = KeyLast(key, "none")
           /\ UNCHANGED fs
        \/ /\ key.code = "Esc"
           /\ app' = [app EXCEPT !.mode = "Normal"]
           /\ last' = KeyLast(key, "none")
           /\ UNCHANGED fs
        \/ /\ key.code \notin {"y", "Y", "n", "N", "Esc"}
           /\ last' = KeyLast(key, "none")
           /\ UNCHANGED <<app, fs>>
    /\ pc' = "check"
    /\ UNCHANGED <<tasks, chan, dispatched, snapshot, completed_live, applied, md_text, md_result>>

\* a loop that does not test should_quit
CheckQuit_never_returns ==
    /\ pc = "check"
    /\ pc' = "poll"
    /\ last' = NoLast
    /\ UNCHANGED <<app, fs, tasks, chan, dispatched, snapshot, completed_live, applied, md_text, md_result>>

\* bottom of the loop: return when should_quit is set
CheckQuit ==
    /\ pc = "check"
    /\ pc' = IF app.should_quit THEN "done" ELSE "poll"
    /\ last' = NoLast
    /\ UNCHANGED <<app, fs, tasks, chan, dispatched, snapshot, completed_live, applied, md_text, md_result>>

\* a spawned task: request_gemini returns and the result is sent on the channel;
\* the send waits while the channel is full
TaskComplete ==
    /\ Len(chan) < ChannelCapacity
    /\ \E i \in 1..Len(tasks), r \in TaskResults :
        /\ tasks' = SubSeq(tasks, 1, i - 1) \o SubSeq(tasks, i + 1, Len(tasks))
        /\ chan' = Append(chan, r)
    /\ completed_live' = IF app.should_quit THEN completed_live ELSE completed_live + 1
    /\ UNCHANGED <<app, fs, pc, last, dispatched, snapshot, applied, md_text, md_result>>

Next ==
    \/ Poll
    \/ NoKey
    \/ KeyNormal
    \/ KeyPrompting
    \/ KeySetup
    \/ KeyProcessing
    \/ KeySearch
    \/ KeySaveAs
    \/ KeyConfirmQuit
    \/ CheckQuit
    \/ TaskComplete

Spec == Init /\ [][Next]_vars

(***************************************************************************)
(* The session under the scheduling the program has: the driver loop keeps *)
(* running (every blocking call in it is bounded: event::poll waits at    *)
(* most 100 ms), and the call of a spawned task returns.                   *)
(***************************************************************************)
\* the event step of an iteration: a key is handled, or none arrived
EventStep ==
    \/ NoKey
    \/ KeyNormal
    \/ KeyPrompting
    \/ KeySetup
    \/ KeyProcessing
    \/ KeySearch
    \/ KeySaveAs
    \/ KeyConfirmQuit

LiveInit ==
    /\ Init
    /\ app.filename = NoName
    /\ \A path \in Paths : fs.files[path] = None

LiveSpec ==
    /\ LiveInit
    /\ [][Next]_vars
    /\ WF_vars(Poll)
    /\ WF_vars(EventStep)
    /\ WF_vars(CheckQuit)
    /\ WF_vars(TaskComplete)

(***************************************************************************)
(* The session while a search is made: the file "n" was opened with a text *)
(* of SearchTexts, the cursor was moved, Ctrl-F was pressed and a query    *)
(* typed; from there only the keys of Search mode are followed.            *)
(***************************************************************************)
SearchInit ==
    /\ \E ls \in SearchTexts, q \in SearchInputs :
          /\ fs = [files |-> [path \in Paths |-> Some(JoinLines(ls))], config |-> <<"k">>]
          /\ \E cu \in CursorsOf(ls) :
                app = [NewApp(Some(<<"n">>), fs) EXCEPT
                          !.textarea = [lines |-> ls, cursor |-> cu],
                          !.mode = "Search",
                          !.search_textarea = q]
    /\ tasks = <<>>
    /\ chan = <<>>
    /\ pc = "event"
    /\ last = NoLast
    /\ dispatched = 0
    /\ completed_live = 0
    /\ applied = 0
    /\ snapshot = None
    /\ md_text = <<>>
    /\ md_result = None

SearchNext ==
    \/ Poll
    \/ NoKey
    \/ KeySearch
    \/ CheckQuit

SearchSpec == SearchInit /\ [][SearchNext]_vars

(***************************************************************************)
(* clean_markdown on its own: a response text of up to MaxMdLines lines,   *)
(* with or without a final line terminator, is given to the function as    *)
(* request_gemini does on a successful reply.                              *)
(***************************************************************************)
\* lines of a model response: empty, plain, a fence, an indented fence with a
\* language tag, and a line with a fence that is not at its start
MdLines ==
    {<<>>, <<"b">>, Fence, <<" ">> \o Fence \o <<"r">>, <<"b">> \o Fence}

MdTexts ==
    {<<>>} \cup {JoinLines(ls) : ls \in SeqsUpTo(MdLines, MaxMdLines)}
           \cup {JoinLines(ls) \o <<NL>> : ls \in SeqsUpTo(MdLines, MaxMdLines)}

MarkdownInit ==
    /\ fs = [files |-> [path \in Paths |-> None], config |-> <<"k">>]
    /\ app = NewApp(None, fs)
    /\ tasks = <<>>
    /\ chan = <<>>
    /\ pc = "poll"
    /\ last = NoLast
    /\ dispatched = 0
    /\ completed_live = 0
    /\ applied = 0
    /\ snapshot = None
    /\ md_text \in MdTexts
    /\ md_result = None

\* Ok(clean_markdown(&text))
CleanApply ==
    /\ md_result = None
    /\ md_result' = Some(clean_markdown(md_text))
    /\ UNCHANGED <<app, fs, tasks, chan, pc, last, dispatched, completed_live, applied,
                   snapshot, md_text>>

MarkdownNext ==
    \/ CleanApply

MarkdownSpec == MarkdownInit /\ [][MarkdownNext]_vars

(***************************************************************************)
(* Properties                                                              *)
(***************************************************************************)
\* AI tasks dispatched whose result has not been taken from the channel
Outstanding == Len(tasks) + Len(chan)

CtrlQ == Key("q", CONTROL)

\* the quit combo as Processing and Setup read it: 'q' with Ctrl held
QuitCombo(key) == key.code = "q" /\ "CONTROL" \in key.mods

\* the last step handled a key in mode m
KeyIn(l, m) == l.op = "key" /\ l.mode = m

\* C1: in every reachable state, mode is Processing exactly when a dispatched
\* AI task has its result neither taken from the channel nor applied.
C1_ProcessingIffOutstanding ==
    (app.mode = "Processing") <=> (Outstanding > 0)

\* C1 witness: Processing, with the result of the task waiting in the channel
C1_Witness ==
    app.mode = "Processing" /\ chan # <<>> /\ pc = "poll"

\* C2: at most one AI task is outstanding after every step, and a step that
\* dispatches a task does not start in Processing.
C2_AtMostOneOutstanding ==
    [][/\ Outstanding' <= 1
       /\ (dispatched' # dispatched => app.mode # "Processing")]_vars

\* C2 witness: a second task was dispatched after the first one was reconciled
C2_Witness ==
    dispatched = 2 /\ applied = 1 /\ Outstanding = 1

\* C3 as stated: when the loop has returned, every task that completed before
\* the session quit has replaced the buffer exactly once.
C3_Original ==
    pc = "done" => applied = completed_live

\* C3 amended: every result sent is either still in the channel or was applied
\* exactly once; a poll that finds a result applies it (buffer replaced by that
\* result, channel emptied), no other step applies one, and a poll that finds
\* the channel empty changes neither the buffer nor the mode.
C3_AppliedOncePerPolledResult ==
    [][/\ dispatched' = Len(tasks') + Len(chan') + applied'
       /\ (pc = "poll" /\ chan # <<>>) =>
             /\ applied' = applied + 1
             /\ app'.textarea = TextAreaFrom(StrLines(Head(chan)))
             /\ chan' = <<>>
       /\ (applied' # applied) => (pc = "poll" /\ chan # <<>>)
       /\ (last'.op = "poll_empty") => (app' = app /\ applied' = applied)]_vars

\* C3 witness: one task dispatched, applied once, and a later poll found nothing
C3_Witness ==
    dispatched = 1 /\ applied = 1 /\ last.op = "poll_empty"

\* C4: in Processing no key changes the mode or the buffer, and every key other
\* than the quit combo leaves the whole App (mode, buffer, is_modified,
\* filename, status_message, should_quit) unchanged.
C4_ProcessingIgnoresKeys ==
    [][KeyIn(last', "Processing") =>
          /\ app'.mode = app.mode
          /\ app'.textarea = app.textarea
          /\ (~QuitCombo(last'.key) => app' = app)]_vars

\* C4 witness: a key other than the quit combo was handled in Processing
C4_Witness ==
    KeyIn(last, "Processing") /\ last.key.code = "Enter" /\ app.mode = "Processing"

\* C5 as stated: after the poll step applied a result, is_modified is true.
C5_Claim ==
    last.op = "poll_apply" => app.is_modified

\* C6 as stated: wherever is_modified is true, Ctrl-Q moves to ConfirmQuit and
\* does not set should_quit.
C6_Original ==
    [][(last'.op = "key" /\ last'.key = CtrlQ /\ app.is_modified) =>
          (app'.mode = "ConfirmQuit" /\ ~app'.should_quit)]_vars

\* C6 amended: in Normal mode with is_modified true, Ctrl-Q moves to
\* ConfirmQuit and does not set should_quit.
C6_NormalQuitConfirms ==
    [][(KeyIn(last', "Normal") /\ last'.key = CtrlQ /\ app.is_modified) =>
          (app'.mode = "ConfirmQuit" /\ ~app'.should_quit)]_vars

\* C6 witness: Ctrl-Q was pressed in Normal on a modified buffer
C6_Witness ==
    KeyIn(last, "Normal") /\ last.key = CtrlQ /\ app.is_modified /\ app.mode = "ConfirmQuit"

\* C7: is_modified goes from true to false only in a step where save_file
\* returned Ok.
C7_DirtyUntilSaved ==
    [][(app.is_modified /\ ~app'.is_modified) => last'.save = "Ok"]_vars

\* C7 witness: a save failed and the buffer is still marked modified
C7_Witness ==
    app.is_modified /\ last.save \in {NoFilenameErr, IoErr}

\* C8: in Normal mode the cut combo, the paste combo and every other key that
\* changes the text leave is_modified true and status_message None.
C8_NormalEditMarksDirty ==
    [][(/\ KeyIn(last', "Normal")
        /\ \/ last'.key \in {Key("k", CONTROL), Key("u", CONTROL)}
           \/ (last'.key \notin NormalCombos /\ app'.textarea.lines # app.textarea.lines))
       => (app'.is_modified /\ app'.status_message = None)]_vars

\* C8 witness: a key changed the text of a buffer that had just been saved
C8_Witness ==
    /\ KeyIn(last, "Normal") /\ last.key = Key("x", NONE)
    /\ app.is_modified /\ app.status_message = None
    /\ \E path \in Paths : fs.files[path] # None /\ fs.files[path] # Some(JoinLines(app.textarea.lines))

\* C9: a step that calls save_file with filename "[No Name]" or "" gets the
\* no-filename error, writes nothing and keeps is_modified; save_file returns
\* the App it was called on unchanged (mode included).
C9_SaveUnnamedFails ==
    [][(last'.save # "none" /\ app'.filename \in {NoName, <<>>}) =>
          /\ last'.save = NoFilenameErr
          /\ fs' = fs
          /\ app'.is_modified = app.is_modified
          /\ \A io_ok \in BOOLEAN :
                LET a == [app EXCEPT !.filename = app'.filename]
                    r == save_file(a, fs, io_ok)
                IN  r.app = a /\ r.fs = fs /\ r.res = NoFilenameErr]_vars

\* C9 witness: save_file was called on the empty filename and failed
C9_Witness ==
    last.save = NoFilenameErr /\ app.filename = <<>>

\* C10: after a step in which save_file failed, status_message is the error
\* text of the call site and should_quit is false.
C10_SaveFailureShown ==
    [][(last'.save \in {NoFilenameErr, IoErr}) =>
          /\ ~app'.should_quit
          /\ last'.mode \in {"Normal", "SaveAs", "ConfirmQuit"}
          /\ last'.mode \in {"Normal", "SaveAs"} =>
                app'.status_message = Some(ErrorStatus(last'.save))
          /\ last'.mode = "ConfirmQuit" =>
                app'.status_message = Some(ErrorSavingStatus(last'.save))]_vars

\* C10 witness: the save of ConfirmQuit 'y' failed
C10_Witness ==
    /\ KeyIn(last, "ConfirmQuit") /\ last.save = IoErr
    /\ app.status_message = Some("Error saving: io error")

\* C11 as stated: when the poll applies the result of a call that failed with
\* message m, the buffer is the text "Error: " followed by m, mode is Normal
\* and should_quit is false.
C11_Original ==
    [][(pc = "poll" /\ chan # <<>> /\ \E m \in AiErrors : Head(chan) = ErrorPrefix \o m) =>
          /\ JoinLines(app'.textarea.lines) = Head(chan)
          /\ app'.mode = "Normal"
          /\ ~app'.should_quit]_vars

\* C11 amended: the buffer holds the lines of "Error: " followed by m (for a
\* one-line m exactly that text; a final line terminator of m is dropped),
\* mode is Normal and should_quit is false.
C11_ErrorShownInBuffer ==
    [][\A m \in AiErrors :
          (pc = "poll" /\ chan # <<>> /\ Head(chan) = ErrorPrefix \o m) =>
             /\ app'.textarea.lines = StrLines(ErrorPrefix \o m)
             /\ (FindFrom(m, NL, 1) = 0 => JoinLines(app'.textarea.lines) = ErrorPrefix \o m)
             /\ app'.mode = "Normal"
             /\ ~app'.should_quit]_vars

\* C11 witness: the poll has put the error text of a failed call in the buffer
C11_Witness ==
    /\ last.op = "poll_apply"
    /\ app.textarea.lines = <<ErrorPrefix \o <<"r">>>>
    /\ app.mode = "Normal" /\ ~app.should_quit

\* C12: in ConfirmQuit, 'y'/'Y' on a named file sets should_quit exactly when
\* save_file succeeds, and a failed save leaves should_quit false, mode Normal
\* and is_modified true; on the unnamed file it moves to SaveAs without quitting.
C12_ConfirmYes ==
    [][(KeyIn(last', "ConfirmQuit") /\ last'.key.code \in {"y", "Y"}) =>
          IF app.filename # NoName
          THEN /\ last'.save # "none"
               /\ app'.should_quit <=> (last'.save = "Ok")
               /\ (last'.save # "Ok") =>
                     (~app'.should_quit /\ app'.mode = "Normal" /\ app'.is_modified)
          ELSE /\ last'.save = "none"
               /\ app'.mode = "SaveAs"
               /\ ~app'.should_quit]_vars

\* C12 witness: 'y' in ConfirmQuit saved the named file and quit
C12_Witness ==
    /\ KeyIn(last, "ConfirmQuit") /\ last.key.code = "y"
    /\ last.save = "Ok" /\ app.should_quit /\ app.filename = <<"n">>

\* C13 as stated: SaveAs Enter on an input with non-empty trimmed text sets
\* filename to the trimmed text, calls save_file on the current buffer, sets
\* mode Normal, and is_modified is false afterwards exactly when the save succeeded.
C13_Original ==
    [][(KeyIn(last', "SaveAs") /\ last'.key.code = "Enter" /\ Trim(app.filename_input) # <<>>) =>
          /\ app'.filename = Trim(app.filename_input)
          /\ last'.save # "none"
          /\ (last'.save = "Ok") =>
                fs'.files[app'.filename] = Some(JoinLines(app.textarea.lines))
          /\ app'.mode = "Normal"
          /\ (~app'.is_modified) <=> (last'.save = "Ok")]_vars

\* C13 amended: as stated, except that is_modified is false after a successful
\* save and keeps the value it had after a failed one.
C13_SaveAsEnter ==
    [][(KeyIn(last', "SaveAs") /\ last'.key.code = "Enter" /\ Trim(app.filename_input) # <<>>) =>
          /\ app'.filename = Trim(app.filename_input)
          /\ last'.save # "none"
          /\ (last'.save = "Ok") =>
                /\ fs'.files[app'.filename] = Some(JoinLines(app.textarea.lines))
                /\ ~app'.is_modified
          /\ (last'.save # "Ok") => (app'.is_modified = app.is_modified /\ fs' = fs)
          /\ app'.mode = "Normal"]_vars

\* C13 witness: the input " n " was accepted, stored trimmed, and the save succeeded
C13_Witness ==
    /\ KeyIn(last, "SaveAs") /\ last.key.code = "Enter"
    /\ app.filename_input = <<" ", "n", " ">> /\ app.filename = <<"n">>
    /\ last.save = "Ok" /\ ~app.is_modified /\ app.mode = "Normal"

\* q occurs in line at the 0-based character column c
OccursAt(line, q, c) == c + Len(q) <= Len(line) /\ SubSeq(line, c + 1, c + Len(q)) = q

Contains(line, q) == \E c \in 0..Len(line) : OccursAt(line, q, c)

\* C14 as stated: Search Enter with a non-empty query moves the cursor to the
\* first line containing the query, at the first position of the query in that
\* line, and leaves the cursor alone when no line contains it; mode becomes Normal.
C14_Claim ==
    [][(KeyIn(last', "Search") /\ last'.key.code = "Enter" /\ app.search_textarea # <<>>) =>
          LET ls == app.textarea.lines
              q == app.search_textarea
              hits == {i \in 0..(Len(ls) - 1) : Contains(ls[i + 1], q)}
          IN  /\ app'.mode = "Normal"
              /\ app'.textarea.lines = ls
              /\ IF hits = {}
                 THEN app'.textarea.cursor = app.textarea.cursor
                 ELSE \E i \in hits : \E c \in 0..Len(ls[i + 1]) :
                         /\ \A j \in hits : i <= j
                         /\ OccursAt(ls[i + 1], q, c)
                         /\ \A d \in 0..(c - 1) : ~OccursAt(ls[i + 1], q, d)
                         /\ app'.textarea.cursor = <<i, c>>]_vars

\* C15 as stated: Search Enter with an empty query leaves the buffer and the
\* cursor as they were and sets mode Normal.
C15_Claim ==
    [][(KeyIn(last', "Search") /\ last'.key.code = "Enter" /\ app.search_textarea = <<>>) =>
          (app'.textarea = app.textarea /\ app'.mode = "Normal")]_vars

\* C16: in Setup, Enter sets mode Normal exactly when the config was saved, and
\* a failed save leaves mode Setup and should_quit false; Esc and the quit
\* combo set should_quit.
C16_SetupKeys ==
    [][KeyIn(last', "Setup") =>
          /\ (last'.key.code = "Enter") =>
                /\ last'.cfg \in {"Ok", IoErr}
                /\ (app'.mode = "Normal") <=> (last'.cfg = "Ok")
                /\ (last'.cfg = "Ok") => fs'.config = Trim(app.setup_textarea)
                /\ (last'.cfg # "Ok") => (app'.mode = "Setup" /\ ~app'.should_quit /\ fs' = fs)
          /\ (last'.key.code = "Esc" \/ QuitCombo(last'.key)) => app'.should_quit]_vars

\* C16 witness: Enter in Setup could not write config.json and the mode is still Setup
C16_Witness ==
    /\ KeyIn(last, "Setup") /\ last.key.code = "Enter" /\ last.cfg = IoErr
    /\ app.mode = "Setup" /\ ~app.should_quit

\* C17: the quit combo in Processing sets should_quit; the loop then returns at
\* the end of that iteration and stays returned; and from the quit on, the
\* result of the task in flight is never taken from the channel nor applied:
\* the App (buffer and mode included) never changes again, whether the task
\* sends its result before or after the quit.
C17_QuitAbandonsTask ==
    [][/\ (KeyIn(last', "Processing") /\ QuitCombo(last'.key)) => app'.should_quit
       /\ (pc = "check" /\ app.should_quit /\ pc' # pc) => pc' = "done"
       /\ (pc = "done") => pc' = "done"
       /\ (app.should_quit /\ app.mode = "Processing") =>
             /\ app' = app
             /\ applied' = applied
             /\ chan # <<>> => chan' = chan]_vars

\* C17 witness: the loop has returned after a quit in Processing and the result
\* of the task lies unread in the channel
C17_Witness ==
    /\ pc = "done" /\ app.mode = "Processing" /\ app.should_quit
    /\ chan # <<>> /\ applied = 0 /\ dispatched = 1

\* C18: when the loop keeps running and the call of the task returns, every
\* state in Processing is followed by a state in Normal or with should_quit set.
C18_ProcessingEnds ==
    (app.mode = "Processing") ~> (app.mode = "Normal" \/ app.should_quit)

\* C18 witness: a session that was in Processing is back in Normal, its result applied
C18_Witness ==
    app.mode = "Normal" /\ ~app.should_quit /\ last.op = "poll_apply" /\ last.mode = "Processing"

\* C19: while the call of a task runs the buffer equals the snapshot the task
\* holds; no step in Processing other than the applying poll changes the
\* buffer; and when a result is applied the buffer it replaces still equals
\* the text captured at dispatch.
C19_BufferFrozenWhileProcessing ==
    [][/\ \A i \in 1..Len(tasks') :
             tasks'[i].current_code = JoinLines(app'.textarea.lines)
       /\ (app.mode = "Processing" /\ last'.op # "poll_apply") => app'.textarea = app.textarea
       /\ (last'.op = "poll_apply" /\ pc = "poll") =>
             snapshot = Some(JoinLines(app.textarea.lines))]_vars

\* C19 witness: a result was applied to a buffer the user had edited before dispatch
C19_Witness ==
    last.op = "poll_apply" /\ app.is_modified /\ applied = 1 /\ snapshot = None

\* C20: filename is not the empty string in any reachable state (it is the
\* sentinel, the path given at construction, or a trimmed non-empty name
\* accepted by SaveAs).
C20_Claim ==
    app.filename # <<>>

\* the modes whose keys go to an auxiliary field or a dialog
AuxModes == {"Prompting", "Setup", "Search", "SaveAs", "ConfirmQuit"}

\* the key is one the mode hands to its own input field
Unmapped(m, key) ==
    /\ m \in {"Prompting", "Setup", "Search", "SaveAs"}
    /\ key.code \notin {"Esc", "Enter"}
    /\ m = "Setup" => ~QuitCombo(key)

\* the App with the input field of mode m replaced by t
WithField(a, m, t) ==
    CASE m = "Prompting" -> [a EXCEPT !.prompt_textarea = t]
      [] m = "Setup" -> [a EXCEPT !.setup_textarea = t]
      [] m = "Search" -> [a EXCEPT !.search_textarea = t]
      [] m = "SaveAs" -> [a EXCEPT !.filename_input = t]

FieldOf(a, m) ==
    CASE m = "Prompting" -> a.prompt_textarea
      [] m = "Setup" -> a.setup_textarea
      [] m = "Search" -> a.search_textarea
      [] m = "SaveAs" -> a.filename_input

\* C21 as stated: a key handled in Prompting, Setup, Search, SaveAs or
\* ConfirmQuit changes neither the text of the main buffer nor is_modified, and
\* an unmapped key of Prompting, Setup, Search or SaveAs changes nothing but
\* that mode's own field.
C21_Original ==
    [][\A m \in AuxModes : KeyIn(last', m) =>
          /\ app'.textarea.lines = app.textarea.lines
          /\ app'.is_modified = app.is_modified
          /\ Unmapped(m, last'.key) => app' = WithField(app, m, FieldOf(app', m))]_vars

\* C21 amended: such a key never changes the text of the main buffer; it
\* changes is_modified only when it is the Enter of SaveAs or the 'y' of
\* ConfirmQuit and save_file succeeded, which clears it; and an unmapped key of
\* Prompting, Setup, Search or SaveAs changes nothing but that mode's own field.
C21_KeysRoutedByMode ==
    [][\A m \in AuxModes : KeyIn(last', m) =>
          /\ app'.textarea.lines = app.textarea.lines
          /\ (app'.is_modified # app.is_modified) =>
                /\ last'.save = "Ok" /\ ~app'.is_modified
                /\ \/ m = "SaveAs" /\ last'.key.code = "Enter"
                   \/ m = "ConfirmQuit" /\ last'.key.code \in {"y", "Y"}
          /\ Unmapped(m, last'.key) => app' = WithField(app, m, FieldOf(app', m))]_vars

\* C21 witness: an unmapped key typed a query in Search while the buffer was
\* modified and the prompt field held a text
C21_Witness ==
    /\ KeyIn(last, "Search") /\ last.key.code = "x"
    /\ app.search_textarea = <<"a">> /\ app.prompt_textarea = <<"u">>
    /\ app.is_modified /\ app.textarea.lines = <<<<"a">>>>

\* the line starts with the code fence once it is trimmed
IsFenceLine(l) == StartsWith(Trim(l), Fence)

\* C22: clean_markdown removes the first line iff it starts with the fence
\* after trimming, then the last remaining line iff it starts with the fence
\* after trimming, and returns the other lines unchanged, in order, joined by
\* newlines; so an opening fence line, body lines and a closing fence line give
\* exactly the body lines joined by newlines.
C22_CleanMarkdown ==
    md_result # None =>
        LET ls == StrLines(md_text)
            n == Len(ls)
            lo == IF n >= 1 /\ IsFenceLine(ls[1]) THEN 2 ELSE 1
            hi == IF n >= lo /\ IsFenceLine(ls[n]) THEN n - 1 ELSE n
        IN  /\ md_result[1] = JoinLines(SubSeq(ls, lo, hi))
            /\ (n >= 2 /\ IsFenceLine(ls[1]) /\ IsFenceLine(ls[n])) =>
                  md_result[1] = JoinLines(SubSeq(ls, 2, n - 1))

\* C22 witness: an indented fence with a language tag, one body line and a
\* closing fence followed by a line terminator gave the body line
C22_Witness ==
    /\ md_text = JoinLines(<<<<" ">> \o Fence \o <<"r">>, <<"b">>, Fence>>) \o <<NL>>
    /\ md_result = Some(<<"b">>)

\* C23: in ConfirmQuit, 'n' or 'N' sets should_quit and calls no save_file
\* (is_modified and the files unchanged); Esc gives Normal without quitting or
\* saving; every key other than these and 'y'/'Y' leaves the session as it is.
C23_ConfirmQuitOtherKeys ==
    [][KeyIn(last', "ConfirmQuit") =>
          /\ (last'.key.code \in {"n", "N"}) =>
                /\ app'.should_quit /\ last'.save = "none"
                /\ app'.is_modified = app.is_modified /\ fs' = fs
          /\ (last'.key.code = "Esc") =>
                /\ app'.mode = "Normal" /\ ~app'.should_quit /\ last'.save = "none"
                /\ app'.is_modified = app.is_modified /\ fs' = fs
          /\ (last'.key.code \notin {"y", "Y", "n", "N", "Esc"}) =>
                /\ app' = app /\ app'.mode = "ConfirmQuit"
                /\ fs' = fs /\ tasks' = tasks /\ chan' = chan]_vars

\* C23 witness: 'n' quit a session whose buffer differs from the file on disk
C23_Witness ==
    /\ KeyIn(last, "ConfirmQuit") /\ last.key.code = "n"
    /\ app.should_quit /\ app.is_modified /\ app.filename = <<"n">>
    /\ fs.files[<<"n">>] = Some(<<"a">>) /\ JoinLines(app.textarea.lines) # <<"a">>

\* C24: in SaveAs, Esc gives Normal and changes nothing else (filename,
\* is_modified and the files stay); Enter on an empty or whitespace-only name
\* calls no save_file and changes nothing, so the mode stays SaveAs.
C24_SaveAsEscAndBlank ==
    [][KeyIn(last', "SaveAs") =>
          /\ (last'.key.code = "Esc") =>
                /\ app' = [app EXCEPT !.mode = "Normal"]
                /\ fs' = fs /\ last'.save = "none"
          /\ (last'.key.code = "Enter" /\ Trim(app.filename_input) = <<>>) =>
                /\ app' = app /\ app'.mode = "SaveAs"
                /\ fs' = fs /\ last'.save = "none"]_vars

\* C24 witness: Enter on a whitespace-only name left the dialog open
C24_Witness ==
    /\ KeyIn(last, "SaveAs") /\ last.key.code = "Enter"
    /\ app.mode = "SaveAs" /\ app.filename_input = <<" ">> /\ app.is_modified

\* C25: the api key in the snapshot of every dispatched AI task is not empty.
C25_Claim ==
    \A i \in 1..Len(tasks) : tasks[i].api_key # <<>>

\* C26: the result channel never holds more than ChannelCapacity (one)
\* message, no task is left waiting while the channel holds a message, and a
\* step in which a task sends its result starts with the channel empty.
C26_SendNeverBlocks ==
    [][/\ Len(chan') <= ChannelCapacity
       /\ (tasks' # <<>>) => (chan' = <<>>)
       /\ (Len(chan') > Len(chan)) => (chan = <<>>)]_vars

\* C26 witness: the second task sent its result between a poll and the key
\* step, after the first result had been applied
C26_Witness ==
    /\ chan # <<>> /\ tasks = <<>> /\ pc = "event"
    /\ dispatched = 2 /\ applied = 1 /\ completed_live = 2

====
